---- MODULE Spec2Model ----
(***************************************************************************)
(* Model of the two dashboard scripts of bflreports:                       *)
(*   dataprocess4.py     the ONDC order dashboard                          *)
(*   ticket_analysis.py  the support-ticket dashboard                      *)
(*                                                                         *)
(* One behaviour is one run: either one render of one of the two scripts   *)
(* (script = "order" / "ticket", pc walks through main() statement by      *)
(* statement), or one call of one of the pure routines on one argument     *)
(* (script = "sla_row" / "email" / "pct").                                 *)
(*                                                                         *)
(* Time is counted in minutes since 1970-01-01 00:00.  A table is a        *)
(* sequence of rows, a row a function from column names to cell values.    *)
(* Missing values: NaT for timestamps, NaNNum for numbers, NaN for text,   *)
(* NaNText for text that is modelled as a sequence of characters.          *)
(***************************************************************************)
EXTENDS Integers, Sequences, FiniteSets, TLC

VARIABLES script, pc, uploaded, cols, df, out, err, arg, ret

vars == <<script, pc, uploaded, cols, df, out, err, arg, ret>>

(***************************************************************************)
(* Bounds of the model.                                                    *)
(***************************************************************************)
MaxRows == 2      \* rows of an uploaded table: 1..MaxRows
MaxLen == 3       \* characters of a contact string given to extract_email_domain
MaxCount == 32    \* valid orders of one category given to the summary table

(***************************************************************************)
(* pandas' value ranges, in minutes.  A Timestamp and a Timedelta are       *)
(* 64-bit nanosecond counts: both reach 2^63-1 ns = 153722867 minutes      *)
(* either side of zero.  Subtracting two Timestamps that are further apart *)
(* raises (OutOfBoundsDatetime / OverflowError).                           *)
(***************************************************************************)
TsMax == 153722867
TsMin == -153722867
TdMax == 153722867

NaT == TsMin - 1          \* missing timestamp; also an empty date cell
NaNNum == -1              \* missing number (float NaN) in a numeric column
NaN == "NaN"              \* missing text cell
NaNText == <<"NaN">>      \* missing cell of a character-sequence column
TooLate == TsMax + 1      \* a date cell beyond the Timestamp range

\* column names, as the string literals of the source
CreateCol == "Order Create Date & Time"
DeliveredCol == "Delivered At Date & Time"
ShippedCol == "Shipped At Date & Time"
ReadyCol == "Ready to Ship At Date & Time"
CancelledCol == "Cancelled At Date & Time"
StatusCol == "Order Status"
ValueCol == "Total Order Value"
CategoryCol == "Order Category"
CityCol == "Delivery City"
OrderIdCol == "Network Order Id"
HourCol == "Order Hour"
ProgressCol == "Progress_Status"
SlaCol == "SLA_Status"
DeliveryHoursCol == "Delivery Time (Hours)"

ContactCol == "Contact ID"
TicketStatusCol == "Status"
SubjectCol == "Subject"
DomainCol == "Email Domain"

OrderCols ==
  {CreateCol, DeliveredCol, ShippedCol, ReadyCol, CancelledCol, StatusCol,
   ValueCol, CategoryCol, CityCol, OrderIdCol}

TicketCols == {ContactCol, TicketStatusCol, SubjectCol}

TimeCols == {CreateCol, DeliveredCol, ShippedCol, ReadyCol, CancelledCol}
NumCols == {HourCol, ProgressCol, ValueCol, DeliveryHoursCol}
TextSeqCols == {ContactCol, SubjectCol, DomainCol}

\* the missing-value marker of a column, and pd.isna on a cell of it
NaOf(c) ==
  IF c \in TimeCols THEN NaT
  ELSE IF c \in NumCols THEN NaNNum
  ELSE IF c \in TextSeqCols THEN NaNText
  ELSE NaN

IsNa(c, v) == v = NaOf(c)

RECURSIVE SumOver(_, _)
SumOver(f, S) ==
  IF S = {} THEN 0
  ELSE LET x == CHOOSE y \in S : TRUE IN f[x] + SumOver(f, S \ {x})

SumCounts(f) == SumOver(f, DOMAIN f)

Column(d, c) == {d[i][c] : i \in 1..Len(d)}

\* len(df[df[c] == v]): NaN equals nothing, not even NaN
CountEq(d, c, v) ==
  Cardinality({i \in 1..Len(d) : ~IsNa(c, d[i][c]) /\ d[i][c] = v})

\* value_counts(dropna=False): the missing value is counted like any other
ValueCountsKeepNa(d, c) ==
  [v \in Column(d, c) |-> Cardinality({i \in 1..Len(d) : d[i][c] = v})]

\* Series.value_counts(): one count per distinct non-missing value
ValueCounts(d, c) ==
  [v \in {x \in Column(d, c) : ~IsNa(c, x)} |-> CountEq(d, c, v)]

(***************************************************************************)
(* dataprocess4.py: calculate_sla_status                                   *)
(***************************************************************************)
MinutesPerHour == 60

\* the subtraction deliver_time - create_time leaves the Timedelta range
Overflows(create_time, deliver_time) ==
  \/ deliver_time - create_time > TdMax
  \/ deliver_time - create_time < -TdMax

\* Some statement inside the try block raises: a row[...] lookup of a column
\* the row does not have (KeyError), or the subtraction (overflow).  The
\* statements run in source order, so a lookup is only reached when the
\* statements before it neither returned nor raised.
SlaRaises(row) ==
  \/ CreateCol \notin DOMAIN row
  \/ /\ row[CreateCol] # NaT
     /\ \/ DeliveredCol \notin DOMAIN row
        \/ /\ row[DeliveredCol] # NaT
           /\ \/ Overflows(row[CreateCol], row[DeliveredCol])
              \/ CategoryCol \notin DOMAIN row

\* threshold in hours, by category
Threshold(category) ==
  IF category = "F&B" THEN 1
  ELSE IF category = "Grocery" THEN 3
  ELSE 5 * 24

\* delivery_time < threshold: the boundary excluded
WithinThresholdStrict(minutes, category) ==
  minutes < Threshold(category) * MinutesPerHour

\* delivery_time <= threshold, with delivery_time = minutes / 60 hours
WithinThreshold(minutes, category) ==
  minutes <= Threshold(category) * MinutesPerHour

\* the try block with 'and' for 'or' in the missing-timestamp test
\* (the category lookup of a row without that column raises, hence 'NA')
SlaTryBothMissing(row) ==
  IF row[CreateCol] = NaT /\ row[DeliveredCol] = NaT THEN "NA"
  ELSE IF CategoryCol \notin DOMAIN row THEN "NA"
  ELSE IF WithinThreshold(row[DeliveredCol] - row[CreateCol], row[CategoryCol])
       THEN "Within SLA"
       ELSE "SLA Breached"

\* the try block, for a row on which nothing raises
SlaTry(row) ==
  IF row[CreateCol] = NaT \/ row[DeliveredCol] = NaT THEN "NA"
  ELSE IF WithinThreshold(row[DeliveredCol] - row[CreateCol], row[CategoryCol])
       THEN "Within SLA"
       ELSE "SLA Breached"

\* an except branch that reports the failed row as a breach
SlaExceptBreached(row) == "SLA Breached"

\* the except branch
SlaExcept(row) == "NA"

calculate_sla_status(row) ==
  IF SlaRaises(row) THEN SlaExcept(row) ELSE SlaTry(row)

\* the assignment followed by an in-place drop of the 'NA' rows
AssignSlaStatusDropNa(d) ==
  SelectSeq([i \in 1..Len(d) |->
               [c \in DOMAIN d[i] \cup {SlaCol} |->
                  IF c = SlaCol THEN calculate_sla_status(d[i]) ELSE d[i][c]]],
            LAMBDA r : r[SlaCol] # "NA")

\* df['SLA_Status'] = df.apply(calculate_sla_status, axis=1)
AssignSlaStatus(d) ==
  [i \in 1..Len(d) |->
     [c \in DOMAIN d[i] \cup {SlaCol} |->
        IF c = SlaCol THEN calculate_sla_status(d[i]) ELSE d[i][c]]]

(***************************************************************************)
(* dataprocess4.py: create_sla_summary                                     *)
(***************************************************************************)
\* round(x, 2) of x = 100 * count / n, in hundredths of a percent, ties to even
Percentage(count, n) ==
  LET q == (count * 10000) \div n
      r == (count * 10000) % n
  IN  IF 2 * r < n THEN q
      ELSE IF 2 * r > n THEN q + 1
      ELSE IF q % 2 = 0 THEN q ELSE q + 1

\* the two-row table built for one category from its valid orders
SummaryTable(valid_orders) ==
  [s \in {"Within SLA", "SLA Breached"} |->
     [Count |-> CountEq(valid_orders, SlaCol, s),
      Percentage |-> Percentage(CountEq(valid_orders, SlaCol, s), Len(valid_orders))]]

\* category_df = df[df['Order Category'] == category]
CategoryDf(d, category) ==
  SelectSeq(d, LAMBDA r : ~IsNa(CategoryCol, r[CategoryCol])
                          /\ r[CategoryCol] = category)

\* valid_orders without the 'NA' filter
ValidOrdersUnfiltered(category_df) == category_df

\* valid_orders = category_df[category_df['SLA_Status'] != 'NA']
ValidOrders(category_df) == SelectSeq(category_df, LAMBDA r : r[SlaCol] # "NA")

\* the loop over df['Order Category'].unique(), which holds NaN when a row
\* has no category; d already carries SLA_Status
SlaSummaries(d) ==
  LET categories == Column(d, CategoryCol)
      kept == {k \in categories :
                 /\ Len(CategoryDf(d, k)) > 0
                 /\ Len(ValidOrders(CategoryDf(d, k))) > 0}
  IN  [k \in kept |-> SummaryTable(ValidOrders(CategoryDf(d, k)))]

(***************************************************************************)
(* dataprocess4.py: create_sla_charts (the second definition, which is the *)
(* one in force) and the distribution aggregators                          *)
(***************************************************************************)
\* valid_sla = df[df['SLA_Status'] != 'NA'], drawn as a pie by SLA_Status
OverallSla(d) == ValueCounts(SelectSeq(d, LAMBDA r : r[SlaCol] # "NA"), SlaCol)

\* pd.crosstab(df['Order Category'], df['SLA_Status']): rows without a
\* category are dropped
CategorySla(d) ==
  LET withCat == SelectSeq(d, LAMBDA r : ~IsNa(CategoryCol, r[CategoryCol]))
  IN  [k \in Column(withCat, CategoryCol) |->
         ValueCounts(CategoryDf(withCat, k), SlaCol)]

\* breached_orders of main(), with its added 'Delivery Time (Hours)' column
\* (in minutes here) and the six columns shown
BreachColumns ==
  {OrderIdCol, CategoryCol, CreateCol, DeliveredCol, DeliveryHoursCol, CityCol}

\* breached_orders selected as the rows that are not 'Within SLA'
NotWithinOrders(d) == SelectSeq(d, LAMBDA r : r[SlaCol] # "Within SLA")

BreachedOrders(d) == SelectSeq(d, LAMBDA r : r[SlaCol] = "SLA Breached")

BreachDetails(d) ==
  LET b == BreachedOrders(d)
  IN  [i \in 1..Len(b) |->
         [c \in BreachColumns |->
            IF c = DeliveryHoursCol
            THEN b[i][DeliveredCol] - b[i][CreateCol]
            ELSE b[i][c]]]

(***************************************************************************)
(* dataprocess4.py: load_and_process_data                                  *)
(***************************************************************************)
\* pd.to_datetime(..., errors='coerce'): a cell that is no date inside the
\* Timestamp range (empty, malformed, out of range) becomes NaT
ToDatetime(raw) == IF raw \in TsMin..TsMax THEN raw ELSE NaT

\* .dt.hour
HourOf(t) == IF t = NaT THEN NaNNum ELSE (t \div MinutesPerHour) % 24

\* df['Order Status'].map(status_mapping)
ProgressOf(status) ==
  IF status = "Completed" THEN 100
  ELSE IF status = "In-progress" THEN 75
  ELSE IF status = "Accepted" THEN 25
  ELSE NaNNum

\* the columns load_and_process_data looks up
LoadCols == TimeCols \cup {StatusCol}

LoadRow(r) ==
  [c \in DOMAIN r \cup {HourCol, ProgressCol} |->
     IF c = HourCol THEN HourOf(ToDatetime(r[CreateCol]))
     ELSE IF c = ProgressCol THEN ProgressOf(r[StatusCol])
     ELSE IF c \in TimeCols THEN ToDatetime(r[c])
     ELSE r[c]]

LoadAndProcess(rows) == [i \in 1..Len(rows) |-> LoadRow(rows[i])]

\* Key Metrics of main(): total, completed and active orders
KeyMetrics(d) ==
  [total |-> Len(d),
   completed |-> CountEq(d, StatusCol, "Completed"),
   active |-> CountEq(d, StatusCol, "In-progress")
              + CountEq(d, StatusCol, "Accepted")]

(***************************************************************************)
(* ticket_analysis.py                                                      *)
(***************************************************************************)
\* the characters [\w.-] of the pattern; every other character ends a domain
DomainChars == {"u", ".", "-"}
Chars == {"u", ".", "@", " "}

Unknown == <<"Unknown">>

\* re.match in place of re.search: the pattern is tried at the start only
MatchStartsAnchored(email) ==
  {i \in {1} \cap 1..(Len(email) - 1) :
     email[i] = "@" /\ email[i + 1] \in DomainChars}

\* re.search(r"@([\w.-]+)", email): the leftmost '@' that a domain character
\* follows, and the longest run of domain characters after it
MatchStarts(email) ==
  {i \in 1..(Len(email) - 1) : email[i] = "@" /\ email[i + 1] \in DomainChars}

MatchGroup(email, i) ==
  LET j == CHOOSE k \in (i + 1)..Len(email) :
             /\ \A m \in (i + 1)..k : email[m] \in DomainChars
             /\ k = Len(email) \/ email[k + 1] \notin DomainChars
  IN  SubSeq(email, i + 1, j)

extract_email_domain(email) ==
  IF email = NaNText THEN Unknown
  ELSE IF MatchStarts(email) = {} THEN Unknown
  ELSE MatchGroup(email, CHOOSE i \in MatchStarts(email) :
                           \A k \in MatchStarts(email) : i <= k)

\* df['Email Domain'] = df['Contact ID'].apply(extract_email_domain)
AssignEmailDomain(d) ==
  [i \in 1..Len(d) |->
     [c \in DOMAIN d[i] \cup {DomainCol} |->
        IF c = DomainCol THEN extract_email_domain(d[i][ContactCol])
        ELSE d[i][c]]]

\* value_counts().head(10): the ten most frequent values
Head10(counts) ==
  IF Cardinality(DOMAIN counts) <= 10 THEN counts
  ELSE LET top == CHOOSE T \in SUBSET DOMAIN counts :
                    /\ Cardinality(T) = 10
                    /\ \A a \in T, b \in DOMAIN counts \ T : counts[a] >= counts[b]
       IN  [v \in top |-> counts[v]]

\* a subject is a sequence of words; the pattern 'order|Order|OID' is matched
\* ignoring case
OrderWords == {"order", "Order", "ORDER", "OID", "oid"}

OrderRelated(d) ==
  Cardinality({i \in 1..Len(d) :
                 /\ d[i][SubjectCol] # NaNText
                 /\ \E k \in 1..Len(d[i][SubjectCol]) :
                      d[i][SubjectCol][k] \in OrderWords})

FwdTickets(d) ==
  Cardinality({i \in 1..Len(d) :
                 /\ d[i][SubjectCol] # NaNText
                 /\ Len(d[i][SubjectCol]) > 0
                 /\ d[i][SubjectCol][1] = "Fwd:"})

TicketMetrics(d) ==
  [total |-> Len(d),
   open |-> CountEq(d, TicketStatusCol, "Open"),
   waiting |-> CountEq(d, TicketStatusCol, "Waiting on Third Party")]

(***************************************************************************)
(* The inputs: uploaded files and arguments                                *)
(***************************************************************************)
NoFile == [kind |-> "none", cols |-> {}, rows |-> <<>>]
EmptyFile == [kind |-> "empty", cols |-> {}, rows |-> <<>>]

Restrict(r, cs) == [c \in cs |-> r[c]]

OrderRow(create, delivered, category, status, city) ==
  [c \in OrderCols |->
     IF c = CreateCol THEN create
     ELSE IF c = DeliveredCol THEN delivered
     ELSE IF c = CategoryCol THEN category
     ELSE IF c = StatusCol THEN status
     ELSE IF c = CityCol THEN city
     ELSE IF c = ValueCol THEN 100
     ELSE IF c = OrderIdCol THEN "N1"
     ELSE NaT]

Categories == {"F&B", "Grocery", "Electronics", NaN}

\* rows of the rendered tables: every SLA outcome in every category, and
\* every combination of present and missing grouped values
SlaTimes == {<<TooLate, 60>>, <<0, NaT>>, <<0, 60>>, <<0, 7201>>, <<TsMin, 60>>}

OrderRows ==
  {OrderRow(t[1], t[2], k, "Completed", "Pune") : t \in SlaTimes, k \in Categories}
  \cup {OrderRow(0, NaT, "F&B", s, y) : s \in {"Accepted", NaN}, y \in {"Pune", NaN}}

\* a header with every expected column, or with one of them absent
Headers(expected) == {expected} \cup {expected \ {c} : c \in expected}

Tables(rowset) == UNION {[1..n -> rowset] : n \in 1..MaxRows}

\* a csv file: a header and 1..MaxRows rows with one cell per header column
Files(expected, rowset) ==
  {[kind |-> "csv", cols |-> h,
    rows |-> [i \in 1..Len(t) |-> Restrict(t[i], h)]] :
     h \in Headers(expected), t \in Tables(rowset)}

TicketRow(contact, status, subject) ==
  [c \in TicketCols |->
     IF c = ContactCol THEN contact
     ELSE IF c = TicketStatusCol THEN status
     ELSE subject]

TicketRows ==
  {TicketRow(c, s, j) :
     c \in {NaNText, <<"u", "@", "u", ".", "u">>, <<"u", " ", "u">>},
     s \in {"Open", NaN},
     j \in {<<"Fwd:", "ORDER", "7">>, NaNText}}

\* rows given to calculate_sla_status alone: both sides of every threshold,
\* the ends of the Timestamp range, and rows without a category column
SlaArgs ==
  LET full == {OrderRow(c, d, k, "Completed", "Pune") :
                 c \in {NaT, 0, TsMin},
                 d \in {NaT, -1, 60, 61, 180, 181, 7200, 7201, TsMax},
                 k \in Categories}
  IN  full \cup {Restrict(r, OrderCols \ {CategoryCol}) : r \in full}

Strings == UNION {[1..n -> Chars] : n \in 0..MaxLen}

EmailArgs == Strings \cup {NaNText}

\* valid orders of one category: some within, the others breached
StatusRows(within, breached) ==
  [i \in 1..(within + breached) |->
     [c \in {SlaCol} |-> IF i <= within THEN "Within SLA" ELSE "SLA Breached"]]

CountArgs ==
  {StatusRows(p[1], p[2]) :
     p \in {q \in (0..MaxCount) \X (0..MaxCount) : q[1] + q[2] \in 1..MaxCount}}

(***************************************************************************)
(* Initial states                                                          *)
(***************************************************************************)
NoOut == [v \in {} |-> 0]

Render(s, f) ==
  /\ script = s /\ pc = "main" /\ uploaded = f
  /\ cols = {} /\ df = <<>> /\ out = NoOut /\ err = "none"
  /\ arg = <<>> /\ ret = <<>>

Call(s, a) ==
  /\ script = s /\ pc = "call" /\ arg = a /\ ret = <<>>
  /\ uploaded = NoFile /\ cols = {} /\ df = <<>> /\ out = NoOut /\ err = "none"

Init ==
  \/ \E f \in Files(OrderCols, OrderRows) \cup {NoFile, EmptyFile} :
       Render("order", f)
  \/ \E f \in Files(TicketCols, TicketRows) \cup {NoFile, EmptyFile} :
       Render("ticket", f)
  \/ \E a \in SlaArgs : Call("sla_row", a)
  \/ \E a \in EmailArgs : Call("email", a)
  \/ \E a \in CountArgs : Call("pct", a)

(***************************************************************************)
(* dataprocess4.py: main                                                   *)
(***************************************************************************)
Show(name, value) == out' = (name :> value) @@ out

\* an exception no handler catches ends the render
Crash(e) ==
  /\ pc' = "crashed" /\ err' = e
  /\ UNCHANGED <<script, uploaded, cols, df, out, arg, ret>>

Step(next) ==
  /\ pc' = next
  /\ UNCHANGED <<script, uploaded, err, arg, ret>>

\* uploaded_file = st.file_uploader(...); if uploaded_file is not None:
OrderMain ==
  /\ script = "order" /\ pc = "main"
  /\ pc' = IF uploaded.kind = "none" THEN "done" ELSE "load"
  /\ UNCHANGED <<script, uploaded, cols, df, out, err, arg, ret>>

\* df = load_and_process_data(uploaded_file)
OrderLoad ==
  /\ script = "order" /\ pc = "load"
  /\ IF uploaded.kind = "empty" THEN Crash("EmptyDataError")
     ELSE IF ~(LoadCols \subseteq uploaded.cols) THEN Crash("KeyError")
     ELSE /\ df' = LoadAndProcess(uploaded.rows)
          /\ cols' = uploaded.cols \cup {HourCol, ProgressCol}
          /\ out' = out
          /\ Step("metrics")

OrderMetrics ==
  /\ script = "order" /\ pc = "metrics"
  /\ IF ValueCol \notin cols THEN Crash("KeyError")
     ELSE /\ Show("metrics", KeyMetrics(df))
          /\ UNCHANGED <<cols, df>>
          /\ Step("hourly")

\* create_hourly_sop_tracker(df)
OrderHourly ==
  /\ script = "order" /\ pc = "hourly"
  /\ Show("hourly_orders", ValueCounts(df, HourCol))
  /\ UNCHANGED <<cols, df>>
  /\ Step("status")

\* create_ticket_status_tracker(df)
OrderStatus ==
  /\ script = "order" /\ pc = "status"
  /\ Show("status_counts", ValueCounts(df, StatusCol))
  /\ UNCHANGED <<cols, df>>
  /\ Step("category")

\* create_category_summary(df)
OrderCategory ==
  /\ script = "order" /\ pc = "category"
  /\ IF CategoryCol \notin cols THEN Crash("KeyError")
     ELSE /\ Show("category_summary", ValueCounts(df, CategoryCol))
          /\ UNCHANGED <<cols, df>>
          /\ Step("city")

\* create_city_summary(df)
OrderCity ==
  /\ script = "order" /\ pc = "city"
  /\ IF CityCol \notin cols THEN Crash("KeyError")
     ELSE /\ Show("city_summary", ValueCounts(df, CityCol))
          /\ UNCHANGED <<cols, df>>
          /\ Step("sla_summary")

\* sla_summaries = create_sla_summary(df)
OrderSlaSummary ==
  /\ script = "order" /\ pc = "sla_summary"
  /\ df' = AssignSlaStatus(df)
  /\ cols' = cols \cup {SlaCol}
  /\ Show("sla_summaries", SlaSummaries(AssignSlaStatus(df)))
  /\ Step("sla_charts")

\* fig_overall_sla, fig_category_sla = create_sla_charts(df)
OrderSlaCharts ==
  /\ script = "order" /\ pc = "sla_charts"
  /\ df' = AssignSlaStatus(df)
  /\ cols' = cols \cup {SlaCol}
  /\ out' = ("overall_sla" :> OverallSla(AssignSlaStatus(df)))
            @@ ("category_sla" :> CategorySla(AssignSlaStatus(df))) @@ out
  /\ Step("breach")

\* the SLA Breach Details block of main()
OrderBreach ==
  /\ script = "order" /\ pc = "breach"
  /\ IF SlaCol \notin cols THEN Crash("KeyError")
     ELSE IF Len(BreachedOrders(df)) > 0 /\ ~(BreachColumns \ {DeliveryHoursCol} \subseteq cols)
     THEN Crash("KeyError")
     ELSE /\ Show("breached_orders", BreachDetails(df))
          /\ UNCHANGED <<cols, df>>
          /\ Step("done")

(***************************************************************************)
(* ticket_analysis.py: main and analyze_tickets                            *)
(***************************************************************************)
\* main() without its try/except: the exception ends the render
Unhandled(e) ==
  /\ pc' = "crashed" /\ err' = e
  /\ UNCHANGED <<script, uploaded, cols, df, out, arg, ret>>

\* except Exception as e: st.error(...)
Handled(e) ==
  /\ pc' = "error_shown" /\ err' = e
  /\ UNCHANGED <<script, uploaded, cols, df, out, arg, ret>>

TicketMain ==
  /\ script = "ticket" /\ pc = "main"
  /\ pc' = IF uploaded.kind = "none" THEN "done" ELSE "read_csv"
  /\ UNCHANGED <<script, uploaded, cols, df, out, err, arg, ret>>

\* df = pd.read_csv(uploaded_file)
TicketRead ==
  /\ script = "ticket" /\ pc = "read_csv"
  /\ IF uploaded.kind = "empty" THEN Handled("EmptyDataError")
     ELSE /\ df' = uploaded.rows
          /\ cols' = uploaded.cols
          /\ out' = out
          /\ Step("email_domain")

TicketEmailDomain ==
  /\ script = "ticket" /\ pc = "email_domain"
  /\ IF ContactCol \notin cols THEN Handled("KeyError")
     ELSE /\ df' = AssignEmailDomain(df)
          /\ cols' = cols \cup {DomainCol}
          /\ out' = out
          /\ Step("metrics")

TicketKeyMetrics ==
  /\ script = "ticket" /\ pc = "metrics"
  /\ IF TicketStatusCol \notin cols THEN Handled("KeyError")
     ELSE /\ Show("metrics", TicketMetrics(df))
          /\ UNCHANGED <<cols, df>>
          /\ Step("status_dist")

TicketStatusDist ==
  /\ script = "ticket" /\ pc = "status_dist"
  /\ Show("status_dist", ValueCounts(df, TicketStatusCol))
  /\ UNCHANGED <<cols, df>>
  /\ Step("domains")

TicketDomains ==
  /\ script = "ticket" /\ pc = "domains"
  /\ Show("domain_counts", Head10(ValueCounts(df, DomainCol)))
  /\ UNCHANGED <<cols, df>>
  /\ Step("patterns")

TicketPatterns ==
  /\ script = "ticket" /\ pc = "patterns"
  /\ IF SubjectCol \notin cols THEN Handled("KeyError")
     ELSE /\ Show("pattern_data",
                  [order_related |-> OrderRelated(df), fwd_tickets |-> FwdTickets(df)])
          /\ UNCHANGED <<cols, df>>
          /\ Step("done")

(***************************************************************************)
(* One call of a routine on one argument                                   *)
(***************************************************************************)
Return(value) ==
  /\ pc = "call" /\ pc' = "returned" /\ ret' = value
  /\ UNCHANGED <<script, uploaded, cols, df, out, err, arg>>

CallSlaStatus == script = "sla_row" /\ Return(calculate_sla_status(arg))

CallEmailDomain == script = "email" /\ Return(extract_email_domain(arg))

CallSummaryTable == script = "pct" /\ Return(SummaryTable(arg))

Next ==
  \/ OrderMain \/ OrderLoad \/ OrderMetrics \/ OrderHourly \/ OrderStatus
  \/ OrderCategory \/ OrderCity \/ OrderSlaSummary \/ OrderSlaCharts
  \/ OrderBreach
  \/ TicketMain \/ TicketRead \/ TicketEmailDomain \/ TicketKeyMetrics
  \/ TicketStatusDist \/ TicketDomains \/ TicketPatterns
  \/ CallSlaStatus \/ CallEmailDomain \/ CallSummaryTable

Spec == Init /\ [][Next]_vars

(***************************************************************************)
(* Properties                                                              *)
(***************************************************************************)
Returned(s) == script = s /\ pc = "returned"

Rows == 1..Len(df)

Classified == script = "order" /\ SlaCol \in cols

\* C1: calculate_sla_status returns 'NA' for every row whose creation or
\* delivery timestamp is missing, whatever its category and other fields:
\* for the row it is called on, and for every row of the rendered table.
C1_MissingTimestampIsNA ==
  /\ Returned("sla_row") /\ (arg[CreateCol] = NaT \/ arg[DeliveredCol] = NaT)
       => ret = "NA"
  /\ Classified =>
       \A i \in Rows :
         (df[i][CreateCol] = NaT \/ df[i][DeliveredCol] = NaT)
           => df[i][SlaCol] = "NA"

C1_Witness ==
  /\ Returned("sla_row")
  /\ arg[CreateCol] # NaT /\ arg[DeliveredCol] = NaT
  /\ CategoryCol \in DOMAIN arg /\ arg[CategoryCol] = "F&B"
  /\ ret = "NA"

\* the thresholds of the claim, in minutes: F&B 1 hour, Grocery 3 hours,
\* any other category 120 hours
ClaimedLimit(category) ==
  IF category = "F&B" THEN 60 ELSE IF category = "Grocery" THEN 180 ELSE 7200

ClaimedStatus(row) ==
  IF row[DeliveredCol] - row[CreateCol] <= ClaimedLimit(row[CategoryCol])
  THEN "Within SLA" ELSE "SLA Breached"

BothPresent(row) == row[CreateCol] # NaT /\ row[DeliveredCol] # NaT

\* how far apart two timestamps may be for their difference to be a Timedelta
Representable(row) ==
  /\ row[DeliveredCol] - row[CreateCol] <= 153722867
  /\ row[CreateCol] - row[DeliveredCol] <= 153722867

\* C2 (as claimed): every row with both timestamps present is 'Within SLA'
\* when its elapsed time is at most the category threshold and 'SLA Breached'
\* when it is greater.
C2_Claimed ==
  /\ Returned("sla_row") /\ CategoryCol \in DOMAIN arg /\ BothPresent(arg)
       => ret = ClaimedStatus(arg)
  /\ Classified =>
       \A i \in Rows : BothPresent(df[i]) => df[i][SlaCol] = ClaimedStatus(df[i])

\* C2 (amended): every row with both timestamps present whose elapsed time
\* is representable (at most 2^63-1 ns, about 292 years, either way) is
\* 'Within SLA' when the elapsed time is at most the category threshold
\* (F&B 1 h, Grocery 3 h, other 120 h; the boundary is inclusive) and
\* 'SLA Breached' when it is greater.
C2_ThresholdWhenRepresentable ==
  /\ Returned("sla_row") /\ CategoryCol \in DOMAIN arg /\ BothPresent(arg)
       /\ Representable(arg)
       => ret = ClaimedStatus(arg)
  /\ Classified =>
       \A i \in Rows :
         BothPresent(df[i]) /\ Representable(df[i])
           => df[i][SlaCol] = ClaimedStatus(df[i])

\* a Grocery row at exactly 3 hours, classified 'Within SLA'
C2_Witness ==
  /\ Returned("sla_row") /\ CategoryCol \in DOMAIN arg
  /\ arg[CategoryCol] = "Grocery"
  /\ arg[CreateCol] = 0 /\ arg[DeliveredCol] = 180
  /\ ret = "Within SLA"

\* the rows of the table whose value in column c is not missing
NonMissing(c) == Cardinality({i \in Rows : ~IsNa(c, df[i][c])})

\* a distribution shown under name v counts exactly the rows with a value in
\* column c, and counts nothing under the missing value
Distributes(v, c) ==
  v \in DOMAIN out =>
    /\ SumCounts(out[v]) = NonMissing(c)
    /\ NaOf(c) \notin DOMAIN out[v]

\* C3: for every distribution aggregator (order hour, order status, order
\* category, delivery city, ticket status, email domain before the top-10
\* cut) the per-value counts sum to the number of rows whose grouped value
\* is not missing; a missing value is counted under no value.
C3_CountsSumToNonMissing ==
  /\ script = "order" =>
       /\ Distributes("hourly_orders", HourCol)
       /\ Distributes("status_counts", StatusCol)
       /\ Distributes("category_summary", CategoryCol)
       /\ Distributes("city_summary", CityCol)
  /\ script = "ticket" =>
       /\ Distributes("status_dist", TicketStatusCol)
       /\ "domain_counts" \in DOMAIN out =>
            /\ SumCounts(ValueCounts(df, DomainCol)) = NonMissing(DomainCol)
            /\ NaNText \notin DOMAIN ValueCounts(df, DomainCol)
            /\ Cardinality(DOMAIN ValueCounts(df, DomainCol)) <= 10
                 => out["domain_counts"] = ValueCounts(df, DomainCol)

\* an order table with a missing and a present status, after the status chart
C3_Witness ==
  /\ script = "order" /\ "status_counts" \in DOMAIN out
  /\ Len(df) = 2 /\ NonMissing(StatusCol) = 1
  /\ SumCounts(out["status_counts"]) = 1

\* the rows of category k with a defined SLA status
ValidOf(k) ==
  Cardinality({i \in Rows : df[i][CategoryCol] = k /\ df[i][SlaCol] # "NA"})

PercentagesAddUp(table) ==
  LET total == table["Within SLA"].Percentage + table["SLA Breached"].Percentage
  IN  total >= 9999 /\ total <= 10001

\* C4: in every table create_sla_summary returns, the two percentages
\* (hundredths of a percent here) sum to 100 within 0.01 and the two counts
\* sum to the number of non-'NA' rows of the category; every category with
\* such a row has a table.
C4_SummaryPercentages ==
  /\ Returned("pct") =>
       /\ PercentagesAddUp(ret)
       /\ ret["Within SLA"].Count + ret["SLA Breached"].Count = Len(arg)
  /\ script = "order" /\ "sla_summaries" \in DOMAIN out =>
       /\ \A k \in DOMAIN out["sla_summaries"] :
            /\ PercentagesAddUp(out["sla_summaries"][k])
            /\ out["sla_summaries"][k]["Within SLA"].Count
                 + out["sla_summaries"][k]["SLA Breached"].Count = ValidOf(k)
       /\ \A k \in Categories \ {NaN} :
            ValidOf(k) > 0 => k \in DOMAIN out["sla_summaries"]

\* a category with one 'NA' row and one valid row, summarised
C4_Witness ==
  /\ script = "order" /\ "sla_summaries" \in DOMAIN out
  /\ \E k \in DOMAIN out["sla_summaries"] :
       /\ ValidOf(k) = 1
       /\ \E i \in Rows : df[i][CategoryCol] = k /\ df[i][SlaCol] = "NA"

\* the contact is local@domain: one '@', and after it only domain characters
LocalAtDomain(email, i) ==
  /\ i \in 1..(Len(email) - 1)
  /\ email[i] = "@"
  /\ \A k \in 1..(i - 1) : email[k] # "@"
  /\ \A k \in (i + 1)..Len(email) : email[k] \in {"u", ".", "-"}

NoAtBeforeDomainChar(email) ==
  \A i \in 1..Len(email) :
    email[i] = "@" => i = Len(email) \/ email[i + 1] \notin {"u", ".", "-"}

\* C5: extract_email_domain returns the part after '@' of a contact
\* local@domain, and "Unknown" for a missing value, for the empty string and
\* for every string without an '@' that a domain character follows.
C5_EmailDomain ==
  Returned("email") =>
    /\ arg = NaNText => ret = Unknown
    /\ arg # NaNText /\ NoAtBeforeDomainChar(arg) => ret = Unknown
    /\ arg # NaNText =>
         \A i \in 1..Len(arg) :
           LocalAtDomain(arg, i) => ret = SubSeq(arg, i + 1, Len(arg))

C5_Witness ==
  Returned("email") /\ arg = <<"u", "@", "u">> /\ ret = <<"u">>

\* the rows the classifier's computation fails on, and the rows it completes
Fails(i) == SlaRaises(df[i])
Computed(i) == BothPresent(df[i]) /\ ~SlaRaises(df[i])

\* C6: an exception raised while computing one row's SLA status is caught
\* for that row only and the row's status becomes 'NA': the other rows are
\* still classified, the render of a file with every expected column is not
\* aborted, and the failing row is counted in no 'Within SLA' / 'SLA
\* Breached' count of the summary, not in the overall pie, and is not listed
\* in the breach details.
C6_ExceptionBecomesNA ==
  /\ Returned("sla_row") /\ SlaRaises(arg) => ret = "NA"
  /\ Classified =>
       \A i \in Rows :
         /\ Fails(i) => df[i][SlaCol] = "NA"
         /\ Computed(i) => df[i][SlaCol] \in {"Within SLA", "SLA Breached"}
  /\ script = "order" /\ uploaded.kind = "csv" /\ uploaded.cols = OrderCols
       => pc # "crashed"
  /\ script = "order" /\ "sla_summaries" \in DOMAIN out =>
       \A k \in DOMAIN out["sla_summaries"] :
         out["sla_summaries"][k]["Within SLA"].Count
           + out["sla_summaries"][k]["SLA Breached"].Count
         = Cardinality({i \in Rows : df[i][CategoryCol] = k /\ Computed(i)})
  /\ script = "order" /\ "overall_sla" \in DOMAIN out =>
       SumCounts(out["overall_sla"]) = Cardinality({i \in Rows : Computed(i)})
  /\ script = "order" /\ "breached_orders" \in DOMAIN out =>
       /\ Len(out["breached_orders"]) <= Cardinality({i \in Rows : Computed(i)})
       /\ \A j \in 1..Len(out["breached_orders"]) :
            Representable(out["breached_orders"][j])

\* a finished render of a table with a failing row and a breached row
C6_Witness ==
  /\ script = "order" /\ pc = "done" /\ "breached_orders" \in DOMAIN out
  /\ \E i \in Rows : Fails(i) /\ df[i][SlaCol] = "NA"
  /\ Len(out["breached_orders"]) = 1

Ended == pc \in {"done", "crashed", "error_shown"}

LacksColumn(expected) == uploaded.kind = "csv" /\ uploaded.cols # expected

\* C7 (as claimed): in both scripts the lookup failure caused by a missing
\* expected column is caught by no handler: the render ends with an
\* unhandled error.
C7_Claimed == err = "KeyError" => pc = "crashed"

\* the columns main() looks up whatever the rows hold
AlwaysRead == OrderCols \ {OrderIdCol}

\* C7 (amended): in the order script the lookup failure caused by a missing
\* expected column is caught by no handler and ends the render with an
\* unhandled error; in the ticket script it is caught by main()'s
\* try/except and ends the render with the handled error message.
C7_LookupFailure ==
  /\ script = "order" /\ err = "KeyError" => pc = "crashed"
  /\ script = "order" /\ Ended /\ uploaded.kind = "csv"
       /\ ~(AlwaysRead \subseteq uploaded.cols)
       => pc = "crashed" /\ err = "KeyError"
  /\ script = "ticket" /\ err # "none" => pc = "error_shown"
  /\ script = "ticket" /\ Ended /\ LacksColumn(TicketCols)
       => pc = "error_shown" /\ err = "KeyError"

C7_Witness ==
  /\ script = "ticket" /\ LacksColumn(TicketCols)
  /\ SubjectCol \notin uploaded.cols
  /\ pc = "error_shown" /\ err = "KeyError"
  /\ "domain_counts" \in DOMAIN out

\* an aggregator is about to run on the loaded table
Aggregating ==
  \/ script = "order"
       /\ pc \in {"hourly", "status", "category", "city", "sla_summary", "sla_charts"}
  \/ script = "ticket"
       /\ pc \in {"email_domain", "metrics", "status_dist", "domains", "patterns"}

\* C8 (as claimed): every aggregator leaves the in-memory table, its set of
\* columns and every cell, unchanged.
C8_Claimed == [][Aggregating => df' = df /\ cols' = cols]_vars

\* C8 (amended): every aggregator leaves every column the table already has
\* and every cell of it unchanged and removes no row; the only change to the
\* table is the derived column the SLA aggregators ('SLA_Status') and
\* analyze_tickets ('Email Domain') add to it.
C8_LoadedColumnsUnchanged ==
  [][Aggregating =>
       /\ Len(df') = Len(df)
       /\ cols \subseteq cols'
       /\ cols' \ cols \subseteq {SlaCol, DomainCol}
       /\ \A i \in 1..Len(df) : \A c \in cols : df'[i][c] = df[i][c]]_vars

\* create_sla_summary has run and added its column to the table
C8_Witness ==
  /\ script = "order" /\ pc = "sla_charts"
  /\ SlaCol \in cols /\ SlaCol \notin uploaded.cols
  /\ \E i \in Rows : df[i][SlaCol] = "Within SLA"

\* C9 (as claimed): the counts of all per-category tables of
\* create_sla_summary add up to the number of non-'NA' rows of the overall
\* SLA pie, rows without a category included.
SummaryTotal(k) ==
  out["sla_summaries"][k]["Within SLA"].Count
    + out["sla_summaries"][k]["SLA Breached"].Count

RECURSIVE SummaryTotals(_)
SummaryTotals(S) ==
  IF S = {} THEN 0
  ELSE LET k == CHOOSE x \in S : TRUE IN SummaryTotal(k) + SummaryTotals(S \ {k})

C9_Claimed ==
  script = "order" /\ "overall_sla" \in DOMAIN out
    => SummaryTotals(DOMAIN out["sla_summaries"]) = SumCounts(out["overall_sla"])

\* C10: in every render with an uploaded file SLA_Status is assigned before
\* the breach-details step reads it, and the table shown lists exactly the
\* rows classified 'SLA Breached', each with a delivery time greater than
\* its category threshold; with no uploaded file nothing is loaded or
\* computed.
ListedRow(b, r) ==
  /\ \A c \in BreachColumns \ {DeliveryHoursCol} : b[c] = r[c]
  /\ b[DeliveryHoursCol] = r[DeliveredCol] - r[CreateCol]
  /\ b[DeliveryHoursCol] > ClaimedLimit(r[CategoryCol])

C10_BreachDetails ==
  /\ script = "order" /\ pc = "breach" => SlaCol \in cols
  /\ script = "order" /\ "breached_orders" \in DOMAIN out =>
       LET shown == out["breached_orders"]
           classified == {i \in Rows : df[i][SlaCol] = "SLA Breached"}
       IN  /\ Len(shown) = Cardinality(classified)
           /\ \A i \in classified :
                ListedRow(shown[Cardinality({j \in classified : j <= i})], df[i])
  /\ script = "order" /\ uploaded.kind = "none" =>
       /\ pc \in {"main", "done"}
       /\ cols = {} /\ df = <<>> /\ out = NoOut /\ err = "none"

C10_Witness ==
  /\ script = "order" /\ pc = "done" /\ "breached_orders" \in DOMAIN out
  /\ Len(df) = 2 /\ Len(out["breached_orders"]) = 1
  /\ df[1][SlaCol] = "Within SLA"

====
